---- MODULE Spec2Model ----
(***************************************************************************)
(* A model of the RetroStream browser client: the FrameBuffer ring buffer  *)
(* (stream/FrameBuffer.ts) and the StreamClient connection state machine   *)
(* (stream/StreamClient.ts) with the sockets and timers it owns.           *)
(*                                                                         *)
(* Methods are operators from an object state (a record of the object's    *)
(* fields) to the object state after the call; every action of a           *)
(* specification applies one whole method, handler or callback.            *)
(***************************************************************************)
EXTENDS Integers, Sequences, FiniteSets, Bags, TLC

VARIABLES
    frameBuffer,   \* the FrameBuffer object: [buffer, maxSize, currentIndex]
    now,           \* Date.now(), in abstract milliseconds
    added,         \* history: every frame handed to addFrame, in call order
    removed,       \* history: TRUE once dropOldFrames or clear removed a frame
    fbOp,          \* history: the last FrameBuffer call and what it returned
    \* ---- StreamClient fields (StreamClient.ts 32-58)
    ws,                 \* this.ws: the socket it holds, or NoSocket for undefined
    reconnectAttempts,  \* this.reconnectAttempts
    reconnectTimer,     \* this.reconnectTimer: a timer handle, NoTimer for undefined
    heartbeatTimer,     \* this.heartbeatTimer: an interval handle, NoTimer for undefined
    statsTimer,         \* this.statsTimer: an interval handle, NoTimer for undefined
    isConnected,        \* this.isConnected
    isPaused,           \* this.isPaused
    currentQuality,     \* this.currentQuality
    stats,              \* this.stats and this.fpsCounter: [fps, droppedFrames,
                        \* totalFrames, frames, lastTime]
    qualityUnsent,      \* history: TRUE when the last setQuality call sent nothing
    \* ---- the host the client runs in
    stale,              \* the sockets this.ws no longer holds that can still raise events
    timers,             \* pending reconnect timeouts, in the order setTimeout made them
    heartbeats,         \* handles of the heartbeat intervals that are running
    statsInterval,      \* TRUE while the stats interval of the constructor is running
    \* ---- history
    task,               \* the event-loop task that ran last, and what it did
    connState,          \* the lifecycle state last entered (ConnectionState)
    explicitDisconnect, \* TRUE from disconnect() until the caller's next connect()
    delaysSinceOpen,    \* the delays of the reconnects scheduled since the last open
    \* ---- EventEmitter (utils/EventEmitter.ts), the base class of the client
    emitter             \* this.events, and the history of the calls of handlers

fbVars == <<frameBuffer, now, added, removed, fbOp>>

clientVars == <<ws, reconnectAttempts, reconnectTimer, heartbeatTimer, statsTimer,
                isConnected, stale, timers, heartbeats, statsInterval,
                task, connState, explicitDisconnect, delaysSinceOpen>>

\* the fields of the message path of the client
streamVars == <<isPaused, currentQuality, stats, qualityUnsent>>

emitterVars == <<emitter>>

vars == <<fbVars, clientVars, streamVars, emitterVars>>

(***************************************************************************)
(* Bounds of the model.                                                    *)
(***************************************************************************)
MaxCapacity == 3      \* FrameBuffer capacities 0..MaxCapacity are explored
MaxFrames == 5        \* addFrame calls in one run
MaxTime == 3          \* the clock runs 0..MaxTime
MaxAge == 2           \* dropOldFrames is called with maxAge in 0..MaxAge

Max(a, b) == IF a >= b THEN a ELSE b
Min(a, b) == IF a <= b THEN a ELSE b

(***************************************************************************)
(* FrameBuffer                                                             *)
(***************************************************************************)
\* "null", as getFrame and its callers return it
NoFrame == [id |-> 0, timestamp |-> 0]

\* a BufferedFrame: the frame's identity and the Date.now() it was buffered at
BufferedFrame(id, ts) == [id |-> id, timestamp |-> ts]

\* history of a FrameBuffer before its first call: a call is [op, ret, n, arg,
\* at, again], with ret the frame it returned, n the number it returned, arg
\* the maxAge it was given, at the Date.now() it read, and again set when it
\* repeats the call before it: dropOldFrames with the same maxAge and clock
NoCall ==
    [op |-> "new", ret |-> NoFrame, n |-> 0, arg |-> 0, at |-> 0, again |-> FALSE]

\* new FrameBuffer(maxSize)
NewFrameBuffer(maxSize) == [buffer |-> <<>>, maxSize |-> maxSize, currentIndex |-> 0]

\* Array.prototype.shift on a non-empty array
Shift(buf) == SubSeq(buf, 2, Len(buf))

addFrame_KeepsOneTooFew(fb, frame) ==
    LET pushed == Append(fb.buffer, frame)
        buf == IF Len(pushed) >= fb.maxSize THEN Shift(pushed) ELSE pushed
    IN [fb EXCEPT !.buffer = buf, !.currentIndex = Len(buf) - 1]

addFrame_KeepsCursor(fb, frame) ==
    LET pushed == Append(fb.buffer, frame)
        buf == IF Len(pushed) > fb.maxSize THEN Shift(pushed) ELSE pushed
    IN [fb EXCEPT !.buffer = buf]

addFrame(fb, frame) ==
    LET pushed == Append(fb.buffer, frame)
        buf == IF Len(pushed) > fb.maxSize THEN Shift(pushed) ELSE pushed
    IN [fb EXCEPT !.buffer = buf, !.currentIndex = Len(buf) - 1]

getLatestFrame(fb) ==
    IF Len(fb.buffer) = 0 THEN NoFrame ELSE fb.buffer[Len(fb.buffer)]

\* indices are 0-based in the code, sequences 1-based here
getFrame(fb, index) ==
    IF index < 0 \/ index >= Len(fb.buffer) THEN NoFrame ELSE fb.buffer[index + 1]

getCurrentFrame(fb) == getFrame(fb, fb.currentIndex)

nextFrame_NoUpperBound(fb) ==
    IF fb.currentIndex < Len(fb.buffer)
    THEN [fb EXCEPT !.currentIndex = @ + 1]
    ELSE fb

\* the state after nextFrame(); the call returns getCurrentFrame of it
nextFrame(fb) ==
    IF fb.currentIndex < Len(fb.buffer) - 1
    THEN [fb EXCEPT !.currentIndex = @ + 1]
    ELSE fb

previousFrame_NoLowerBound(fb) == [fb EXCEPT !.currentIndex = @ - 1]

\* the state after previousFrame(); the call returns getCurrentFrame of it
previousFrame(fb) ==
    IF fb.currentIndex > 0
    THEN [fb EXCEPT !.currentIndex = @ - 1]
    ELSE fb

seekToLatest_ToLength(fb) == [fb EXCEPT !.currentIndex = Len(fb.buffer)]

\* the state after seekToLatest(); the call returns getCurrentFrame of it
seekToLatest(fb) == [fb EXCEPT !.currentIndex = Max(0, Len(fb.buffer) - 1)]

getBufferSize(fb) == Len(fb.buffer)

clear(fb) == [fb EXCEPT !.buffer = <<>>, !.currentIndex = 0]

\* the while loop of dropOldFrames: how many head frames are older than maxAge
RECURSIVE DropCount_DropsAtMaxAge(_, _, _)
DropCount_DropsAtMaxAge(buf, t, maxAge) ==
    IF Len(buf) > 0 /\ (t - buf[1].timestamp) >= maxAge
    THEN 1 + DropCount_DropsAtMaxAge(Shift(buf), t, maxAge)
    ELSE 0

RECURSIVE DropCount_ChecksAfterShift(_, _, _)
DropCount_ChecksAfterShift(buf, t, maxAge) ==
    IF Len(buf) = 0
    THEN 0
    ELSE IF (t - buf[1].timestamp) > maxAge
         THEN 1 + DropCount_ChecksAfterShift(Shift(buf), t, maxAge)
         ELSE 1

RECURSIVE DropCount(_, _, _)
DropCount(buf, t, maxAge) ==
    IF Len(buf) > 0 /\ (t - buf[1].timestamp) > maxAge
    THEN 1 + DropCount(Shift(buf), t, maxAge)
    ELSE 0

dropOldFrames_KeepsIndex(fb, t, maxAge) ==
    LET dropped == DropCount(fb.buffer, t, maxAge)
        buf == SubSeq(fb.buffer, dropped + 1, Len(fb.buffer))
    IN [fb EXCEPT !.buffer = buf,
                  !.currentIndex = Max(0, Min(fb.currentIndex, Len(buf) - 1))]

\* the state after dropOldFrames(maxAge) at time t; the call returns
\* DropCount(fb.buffer, t, maxAge)
dropOldFrames(fb, t, maxAge) ==
    LET dropped == DropCount(fb.buffer, t, maxAge)
    IN [fb EXCEPT !.buffer = SubSeq(fb.buffer, dropped + 1, Len(fb.buffer)),
                  !.currentIndex = Max(0, fb.currentIndex - dropped)]

(***************************************************************************)
(* Config (config/Config.ts, getDefaultConfig)                             *)
(***************************************************************************)
ReconnectAttempts == 5      \* config.reconnectAttempts
ReconnectDelay == 2000      \* config.reconnectDelay, ms
BufferSize == 3             \* config.bufferSize

(***************************************************************************)
(* Bounds of the client model.                                             *)
(***************************************************************************)
MaxSockets == 3        \* sockets that can raise events at the same time
MaxStaleTimers == 0    \* reconnect timeouts still pending when a socket opens
MaxHeartbeats == 2     \* heartbeat intervals that may run at the same time

(***************************************************************************)
(* The host: WebSocket objects and timers.                                 *)
(*                                                                         *)
(* A socket is [readyState, promise, timeout, failed, catchDue, closeDue]: *)
(* readyState as WebSocket.readyState; promise, the promise of             *)
(* waitForConnection ("pending" or "settled"); timeout, TRUE while the     *)
(* 10 s timer of waitForConnection is pending; failed, TRUE when the       *)
(* connection was failed, so that an error event precedes its close event; *)
(* catchDue, TRUE when the rejection of connect()'s await has its catch    *)
(* block still to run (the next microtask); closeDue, TRUE when the error  *)
(* event was delivered and the close event follows in the same task.       *)
(* The four handlers and the two listeners stay attached for the socket's  *)
(* life: nothing in the client detaches them.                              *)
(***************************************************************************)
\* this.ws === undefined
NoSocket == [readyState |-> "undefined", promise |-> "settled", timeout |-> FALSE,
             failed |-> FALSE, catchDue |-> FALSE, closeDue |-> FALSE]

\* a socket whose close event was delivered: it raises no further event
DeadSocket == [readyState |-> "CLOSED", promise |-> "settled", timeout |-> FALSE,
               failed |-> FALSE, catchDue |-> FALSE, closeDue |-> FALSE]

\* new WebSocket(url) and, in waitForConnection, the promise and its timeout
NewSocket == [readyState |-> "CONNECTING", promise |-> "pending", timeout |-> TRUE,
              failed |-> FALSE, catchDue |-> FALSE, closeDue |-> FALSE]

\* the socket can still raise an event or fire its timeout
Live(sock) ==
    \/ sock.readyState \in {"CONNECTING", "OPEN", "CLOSING"}
    \/ sock.closeDue
    \/ sock.catchDue

NoTimer == 0
\* the handle of a timeout that has fired: truthy, and clearTimeout ignores it
Stale == -1
\* the handle window.setInterval returns to the constructor
StatsHandle == 1

RECURSIVE Pow2(_)
Pow2(n) == IF n <= 0 THEN 1 ELSE 2 * Pow2(n - 1)

\* the smallest handle no running interval has
FreshHandle(used) ==
    CHOOSE h \in 1..(Cardinality(used) + 1) :
        h \notin used /\ \A j \in 1..(h - 1) : j \in used

\* The pending reconnect timeouts are kept in the order setTimeout made them, and
\* the handle of a pending timeout is its place in that order: handles are only
\* ever compared for identity, so the numbering is free.  Removing the timeout at
\* place h moves the later ones down by one.
RemoveAt(tm, h) == [i \in 1..(Len(tm) - 1) |-> IF i < h THEN tm[i] ELSE tm[i + 1]]

\* what a handle held in a field becomes when the timeout at place h is removed
\* by its firing: its own handle is Stale from then on
HandleAfterFire(handle, h) ==
    CASE handle = h -> Stale
      [] handle > h -> handle - 1
      [] OTHER -> handle

\* clearTimeout(h): a handle that is not pending is ignored
ClearTimeout(tm, h) == IF h \in 1..Len(tm) THEN RemoveAt(tm, h) ELSE tm

\* A socket is referred to as "ws" (the one this.ws holds) or as a record of the
\* bag of the sockets this.ws no longer holds.
SocketRefs(cur, others) ==
    (IF Live(cur) THEN {<<"ws", cur>>} ELSE {})
        \cup {<<"stale", r>> : r \in BagToSet(others)}

\* the socket a reference names
SocketOf(ref) == ref[2]

\* S with the socket that ref names replaced by sock; a dead socket that this.ws
\* does not hold is forgotten
SetSocket(S, ref, sock) ==
    IF ref[1] = "ws"
    THEN [S EXCEPT !.ws = sock]
    ELSE [S EXCEPT !.stale = IF Live(sock)
                             THEN (@ (-) SetToBag({ref[2]})) (+) SetToBag({sock})
                             ELSE @ (-) SetToBag({ref[2]})]

\* how many sockets can still raise events
LiveCount(S) == BagCardinality(S.stale) + (IF Live(S.ws) THEN 1 ELSE 0)

\* no microtask and no second event of the running task is outstanding
Quiescent ==
    \A ref \in SocketRefs(ws, stale) :
        ~SocketOf(ref).catchDue /\ ~SocketOf(ref).closeDue

(***************************************************************************)
(* Messages.  A message is the ArrayBuffer of a message event:             *)
(* [len, head, json, meta, rawLen].  len is its byteLength and head its    *)
(* first min(len, 4) bytes.  json tells what JSON.parse makes of the bytes *)
(* the code slices as the header: "malformed" when it throws, "null" when  *)
(* it returns no object, "object" when it returns the object meta.  rawLen *)
(* is the length of the pixel data the payload stands for: the length the  *)
(* payload decompresses to when meta.compressed is set, DecompressionFails *)
(* when the decompressor rejects it.                                       *)
(***************************************************************************)
\* Decompressor.decompress rejects the payload: 'Decompression failed'
DecompressionFails == -1

\* no message event was handled
NoMessage == [len |-> 0, head |-> <<>>, json |-> "none",
              meta |-> [width |-> 0, height |-> 0, compressed |-> FALSE,
                        timestamp |-> 0, frameId |-> 0],
              rawLen |-> 0]

\* parseFrameMessage was not called
NotDecoded == [kind |-> "notDecoded"]

\* parseFrameMessage returned null
NoFrameData == [kind |-> "null"]

getUint32_BigEndian(head) ==
    16777216 * head[1] + 65536 * head[2] + 256 * head[3] + head[4]

\* DataView.getUint32(0, true): the first four bytes, little-endian
getUint32(head) ==
    head[1] + 256 * head[2] + 65536 * head[3] + 16777216 * head[4]

\* the value parseFrameMessage returns for the message m received at time t,
\* with the latency it writes into the header
parseFrameMessage(m, t) ==
    IF m.len < 4
    THEN NoFrameData
    ELSE LET headerLength == getUint32(m.head)
         IN IF m.len < 4 + headerLength
            THEN NoFrameData
            ELSE IF m.json = "object"
                 THEN [kind |-> "frame",
                       header |-> m.meta @@ [latency |-> t - m.meta.timestamp],
                       payload |-> m.len - (4 + headerLength)]
                 ELSE NoFrameData

(***************************************************************************)
(* EventEmitter.  this.events maps an event to the Set of its handlers; a  *)
(* Set keeps insertion order, and a handler deleted while forEach runs     *)
(* leaves its place empty until the outermost emit has returned.  A        *)
(* handler is [fn, closure]: fn tells what the function does when it is    *)
(* called ("returns", "throws", or "emits" the event it is called for),    *)
(* and closure is 0 for the function itself and the number of the once()   *)
(* call for the onceHandler that once() wraps around it.                   *)
(***************************************************************************)
\* handlers of one event, calls of once(), calls of emit() in a run, and
\* the emits that fit on the stack inside one another
MaxListeners == 2

MaxOnce == 1

MaxEmits == 2

MaxDepth == 1

EventNames == {"frame", "stats"}

Behaviours == {"returns", "throws", "emits"}

\* the place of a handler that was deleted during forEach
Deleted == [fn |-> "deleted", closure |-> 0]

\* new EventEmitter(), with the history: closures counts the once() calls,
\* emits the emit() calls, calls[k] the calls of the handler wrapped by the
\* k-th onceHandler, and log the handlers called since the last emit() from
\* outside began, with the event and the depth of the emit that called each
\* exc is the exception on its way up the stack, before holds the handlers
\* of the emitted event as the last emit() found them
NewEventEmitter ==
    [events |-> [e \in EventNames |-> <<>>], closures |-> 0, emits |-> 0,
     calls |-> <<>>, event |-> "none", before |-> <<>>, log |-> <<>>,
     exc |-> FALSE]

\* the handlers of a Set in insertion order, without the deleted places
Entries(handlers) == SelectSeq(handlers, LAMBDA h : h # Deleted)

\* handlers.size
SetSize(handlers) == Len(Entries(handlers))

\* handlers.has(h)
SetHas(handlers, h) == \E i \in 1..Len(handlers) : handlers[i] = h

\* handlers.delete(h)
SetDelete(handlers, h) ==
    [i \in 1..Len(handlers) |-> IF handlers[i] = h THEN Deleted ELSE handlers[i]]

\* on(event, handler): a Set holds a handler once
EventEmitter_on(E, event, handler) ==
    IF SetHas(E.events[event], handler)
    THEN E
    ELSE [E EXCEPT !.events[event] = Append(@, handler)]

\* off(event, handler)
EventEmitter_off(E, event, handler) ==
    [E EXCEPT !.events[event] = SetDelete(@, handler)]

\* once(event, handler): a new onceHandler closure around handler
EventEmitter_once(E, event, fn) ==
    EventEmitter_on([E EXCEPT !.closures = @ + 1, !.calls = Append(@, 0)],
                    event, [fn |-> fn, closure |-> E.closures + 1])

RECURSIVE EventEmitter_emit(_, _, _)
RECURSIVE forEach(_, _, _, _)

\* handler(data) for the three functions a handler can be; an emit too deep
\* in the stack is a RangeError in the handler that asked for it
CallFunction(E, event, fn, depth) ==
    CASE fn = "returns" -> E
      [] fn = "throws" -> [E EXCEPT !.exc = TRUE]
      [] fn = "emits" -> IF depth >= MaxDepth
                         THEN [E EXCEPT !.exc = TRUE]
                         ELSE EventEmitter_emit(E, event, depth + 1)

\* onceHandler(data): handler(data), and then this.off(event, onceHandler)
onceHandler(E, event, h, depth) ==
    LET E1 == [E EXCEPT !.calls[h.closure] = @ + 1]
        E2 == CallFunction(E1, event, h.fn, depth)
    IN  IF E2.exc THEN E2 ELSE EventEmitter_off(E2, event, h)

\* the call of one registered handler
CallHandler(E, event, h, depth) ==
    LET E1 == [E EXCEPT !.log = Append(@, [event |-> event, handler |-> h,
                                           depth |-> depth])]
    IN  IF h.closure = 0
        THEN CallFunction(E1, event, h.fn, depth)
        ELSE onceHandler(E1, event, h, depth)

forEachCallback_NoCatch(E, event, h, depth) == CallHandler(E, event, h, depth)

\* the callback of forEach: try { handler(data) } catch { console.error }
forEachCallback(E, event, h, depth) ==
    [CallHandler(E, event, h, depth) EXCEPT !.exc = FALSE]

\* handlers.forEach(...) from place i on: the places as they are when the
\* iteration reaches them; an exception leaving the callback ends it
forEach(E, event, i, depth) ==
    IF i > Len(E.events[event]) \/ E.exc
    THEN E
    ELSE IF E.events[event][i] = Deleted
         THEN forEach(E, event, i + 1, depth)
         ELSE forEach(forEachCallback(E, event, E.events[event][i], depth),
                      event, i + 1, depth)

\* emit(event, data)
EventEmitter_emit(E, event, depth) ==
    IF SetSize(E.events[event]) > 0 THEN forEach(E, event, 1, depth) ELSE E

\* the emitter when the outermost call has returned: no iteration is left
\* that could see a deleted place
Returned(E) ==
    [E EXCEPT !.events = [e \in EventNames |-> Entries(E.events[e])]]

\* the history of the last emit() is kept until the next call of the emitter
Forget(E) == [E EXCEPT !.event = "none", !.before = <<>>, !.log = <<>>]

(***************************************************************************)
(* The message byte by byte.  The bytes of the wire are numbers: the four  *)
(* bytes of the header length, the JSON text of the header, the payload.   *)
(* The JSON text of a header is written with one byte per token: 123 for   *)
(* the opening brace, one byte for the value of each field in the order    *)
(* width, height, compressed, timestamp, frameId, and 125 for the closing  *)
(* brace.                                                                  *)
(***************************************************************************)
\* DataView.setUint32(0, n, true): n in four bytes, little-endian
setUint32(n) ==
    <<n % 256, (n \div 256) % 256, (n \div 65536) % 256, (n \div 16777216) % 256>>

\* JSON.stringify of a FrameMetadata, as the producer writes it
JSONstringify(meta) ==
    <<123, meta.width, meta.height, IF meta.compressed THEN 1 ELSE 0,
      meta.timestamp, meta.frameId, 125>>

\* the producer's side of the wire format: header length, header, payload
encodeFrame(meta, payload) ==
    setUint32(Len(JSONstringify(meta))) \o JSONstringify(meta) \o payload

slice_InclusiveEnd(data, begin, end) == SubSeq(data, begin + 1, Min(end + 1, Len(data)))

\* ArrayBuffer.slice(begin, end): the bytes at the offsets begin..end-1
slice(data, begin, end) == SubSeq(data, begin + 1, Min(end, Len(data)))

\* JSON.parse(headerText), after TextDecoder.decode: the object of a text
\* that is one, ok = FALSE when JSON.parse throws
JSONparse(text) ==
    IF Len(text) = 7 /\ text[1] = 123 /\ text[7] = 125 /\ text[4] \in {0, 1}
    THEN [ok |-> TRUE,
          value |-> [width |-> text[2], height |-> text[3],
                     compressed |-> (text[4] = 1), timestamp |-> text[5],
                     frameId |-> text[6]]]
    ELSE [ok |-> FALSE, value |-> NoMessage.meta]

\* the ArrayBuffer of the bytes data, as parseFrameMessage reads it: what it
\* slices as the header and what JSON.parse makes of that
ArrayBufferOf(data) ==
    LET head == SubSeq(data, 1, Min(Len(data), 4))
        headerLength == IF Len(data) >= 4 THEN getUint32(head) ELSE 0
        headerBytes == slice(data, 4, 4 + headerLength)
        header == JSONparse(headerBytes)
    IN [len |-> Len(data), head |-> head,
        json |-> IF header.ok THEN "object" ELSE "malformed",
        meta |-> header.value,
        rawLen |-> Len(slice(data, 4 + headerLength, Len(data)))]

\* data.slice(4 + headerLength): the payload parseFrameMessage returns
payloadOf(data) ==
    slice(data, 4 + getUint32(SubSeq(data, 1, 4)), Len(data))

(***************************************************************************)
(* StreamClient.  S is the client with its host: the fields of the object, *)
(* the sockets and timers, and the history of the running task.            *)
(***************************************************************************)
\* no frame was encoded
NoInput == [meta |-> NoMessage.meta, payload |-> <<>>]

NewTask(step) ==
    [step |-> step, wasConnected |-> isConnected,
     emitted |-> <<>>, scheduled |-> <<>>, created |-> FALSE, rejected |-> FALSE,
     sent |-> <<>>, msg |-> NoMessage, parsed |-> NotDecoded, threw |-> "none",
     input |-> NoInput, wire |-> <<>>, payload |-> <<>>]

\* EventEmitter.emit, as far as the client's own lifecycle goes: the event is
\* published to the listeners
emit(S, event) ==
    [S EXCEPT !.task.emitted = Append(@, event),
              !.connState = CASE event = "connected" -> "Connected"
                              [] event = "disconnected" -> "Disconnected"
                              [] event = "error" -> "Errored"
                              [] OTHER -> @]

scheduleReconnect_DelayBeforeIncrement(S) ==
    LET delay == (ReconnectDelay * Pow2(S.reconnectAttempts)) \div 2
        attempts == S.reconnectAttempts + 1
        id == Len(S.timers) + 1
    IN [S EXCEPT !.reconnectAttempts = attempts,
                 !.timers = Append(@, [delay |-> delay]),
                 !.reconnectTimer = id,
                 !.task.scheduled = Append(@, delay),
                 !.delaysSinceOpen = Append(@, delay)]

scheduleReconnect(S) ==
    LET attempts == S.reconnectAttempts + 1
        delay == ReconnectDelay * Pow2(attempts - 1)
        id == Len(S.timers) + 1
    IN [S EXCEPT !.reconnectAttempts = attempts,
                 !.timers = Append(@, [delay |-> delay]),
                 !.reconnectTimer = id,
                 !.task.scheduled = Append(@, delay),
                 !.delaysSinceOpen = Append(@, delay)]

startHeartbeat(S) ==
    LET id == FreshHandle(S.heartbeats)
    IN [S EXCEPT !.heartbeats = @ \cup {id}, !.heartbeatTimer = id]

stopHeartbeat(S) ==
    IF S.heartbeatTimer # NoTimer
    THEN [S EXCEPT !.heartbeats = @ \ {S.heartbeatTimer}, !.heartbeatTimer = NoTimer]
    ELSE S

handleDisconnection_RetriesAtMaximum(S) ==
    LET S1 == [S EXCEPT !.isConnected = FALSE]
        S2 == stopHeartbeat(S1)
        S3 == emit(S2, "disconnected")
    IN IF S3.reconnectAttempts <= ReconnectAttempts THEN scheduleReconnect(S3) ELSE S3

handleDisconnection(S) ==
    LET S1 == [S EXCEPT !.isConnected = FALSE]
        S2 == stopHeartbeat(S1)
        S3 == emit(S2, "disconnected")
    IN IF S3.reconnectAttempts < ReconnectAttempts THEN scheduleReconnect(S3) ELSE S3

handleConnectionError_StaysConnected(S) ==
    LET S2 == emit(S, "error")
    IN IF S2.reconnectAttempts < ReconnectAttempts THEN scheduleReconnect(S2) ELSE S2

handleConnectionError(S) ==
    LET S1 == [S EXCEPT !.isConnected = FALSE]
        S2 == emit(S1, "error")
    IN IF S2.reconnectAttempts < ReconnectAttempts THEN scheduleReconnect(S2) ELSE S2

\* WebSocket.send(JSON.stringify(message)) on the socket this.ws holds
send(S, message) == [S EXCEPT !.task.sent = Append(@, message)]

\* {type: 'ping'}
Ping == [type |-> "ping"]

\* the callback of the heartbeat interval
heartbeatTick(S) ==
    IF S.ws.readyState = "OPEN" THEN send(S, Ping) ELSE S

onopen_KeepsAttempts(S) ==
    LET S1 == [S EXCEPT !.isConnected = TRUE]
        S2 == startHeartbeat(S1)
    IN emit(S2, "connected")

\* ws.onopen
onopen(S) ==
    LET S1 == [S EXCEPT !.isConnected = TRUE, !.reconnectAttempts = 0]
        S2 == startHeartbeat(S1)
    IN emit(S2, "connected")

\* ws.onclose
onclose(S) == handleDisconnection(S)

\* ws.onerror
onerror(S) == handleConnectionError(S)

connectReturnsEarly_IgnoresConnecting(S) == S.isConnected

\* the guard of connect(): TRUE when the call returns at once
connectReturnsEarly(S) ==
    S.isConnected \/ S.ws.readyState = "CONNECTING"

\* connect() up to its await: the socket is made, setupWebSocketHandlers attaches
\* the four handlers, waitForConnection arms the timeout and the two listeners.
\* The socket this.ws held keeps its handlers.
connect(S) ==
    IF connectReturnsEarly(S)
    THEN S
    ELSE [S EXCEPT !.stale = IF Live(S.ws) THEN @ (+) SetToBag({S.ws}) ELSE @,
                   !.ws = NewSocket,
                   !.task.created = TRUE,
                   !.connState = "Connecting"]

\* the catch block of connect(): the awaited promise was rejected
connectCatch(S) ==
    LET S1 == handleConnectionError(S)
    IN [S1 EXCEPT !.task.rejected = TRUE]

\* WebSocket.close(code, reason)
wsClose(sock) ==
    CASE sock.readyState = "CONNECTING" ->
            [sock EXCEPT !.readyState = "CLOSING", !.failed = TRUE]
      [] sock.readyState = "OPEN" -> [sock EXCEPT !.readyState = "CLOSING"]
      [] OTHER -> sock

disconnect(S) ==
    LET S1 == [S EXCEPT !.isConnected = FALSE]
        S2 == IF S1.reconnectTimer # NoTimer
              THEN [S1 EXCEPT !.timers = ClearTimeout(@, S1.reconnectTimer),
                              !.reconnectTimer = NoTimer]
              ELSE S1
        S3 == stopHeartbeat(S2)
        S4 == IF S3.statsTimer # NoTimer
              THEN [S3 EXCEPT !.statsInterval = FALSE, !.statsTimer = NoTimer]
              ELSE S3
        S5 == IF S4.ws # NoSocket
              THEN [S4 EXCEPT !.stale = IF Live(wsClose(S4.ws))
                                        THEN @ (+) SetToBag({wsClose(S4.ws)})
                                        ELSE @,
                              !.ws = NoSocket]
              ELSE S4
    IN emit(S5, "disconnected")

(***************************************************************************)
(* The message path of StreamClient.  S has the fields of State and, in    *)
(* addition, frameBuffer, isPaused, currentQuality, stats and now.         *)
(***************************************************************************)
\* the keys of QualitySettings
QualityNames == {"high", "medium", "low"}

\* Config.getQuality: the settings of a key, undefined for any other name
getQuality(quality) ==
    IF quality \in QualityNames THEN [settings |-> quality] ELSE [settings |-> "undefined"]

\* {type: 'quality', config: qualityConfig}
QualityMessage(quality) == [type |-> "quality", config |-> getQuality(quality)]

setQuality(S, quality) ==
    LET S1 == [S EXCEPT !.currentQuality = quality]
    IN IF S1.ws.readyState = "OPEN" THEN send(S1, QualityMessage(quality)) ELSE S1

pause(S) == [S EXCEPT !.isPaused = TRUE]

resume(S) == [S EXCEPT !.isPaused = FALSE]

\* the length of the window updateFPS counts frames in, ms
FpsWindow == 1000

updateFPS(S) ==
    LET frames == S.stats.frames + 1
    IN IF S.now - S.stats.lastTime >= FpsWindow
       THEN [S EXCEPT !.stats.fps = frames, !.stats.frames = 0,
                      !.stats.lastTime = S.now]
       ELSE [S EXCEPT !.stats.frames = frames]

\* new ImageData(data, width, height) throws for a zero width or height
ImageDataThrows(metadata) == metadata.width = 0 \/ metadata.height = 0

processFrame_Deduplicates(S, metadata, payload) ==
    LET S1 == [S EXCEPT !.stats.totalFrames = @ + 1]
        S2 == updateFPS(S1)
        expectedSize == metadata.width * metadata.height * 4
        frame == [id |-> metadata.frameId, timestamp |-> S.now,
                  width |-> metadata.width, height |-> metadata.height,
                  compressed |-> metadata.compressed,
                  latency |-> metadata.latency, pixels |-> payload]
        S3 == [S2 EXCEPT !.frameBuffer = addFrame(@, frame)]
    IN IF payload # expectedSize \/ getLatestFrame(S.frameBuffer).id = metadata.frameId
       THEN S2
       ELSE IF ImageDataThrows(metadata)
            THEN [S2 EXCEPT !.stats.droppedFrames = @ + 1]
            ELSE IF getLatestFrame(S3.frameBuffer) # NoFrame
                 THEN emit(S3, "frame")
                 ELSE S3

processFrame_NoSizeCheck(S, metadata, payload) ==
    LET S1 == [S EXCEPT !.stats.totalFrames = @ + 1]
        S2 == updateFPS(S1)
        frame == [id |-> metadata.frameId, timestamp |-> S.now,
                  width |-> metadata.width, height |-> metadata.height,
                  compressed |-> metadata.compressed,
                  latency |-> metadata.latency, pixels |-> payload]
        S3 == [S2 EXCEPT !.frameBuffer = addFrame(@, frame)]
    IN IF ImageDataThrows(metadata)
       THEN [S2 EXCEPT !.stats.droppedFrames = @ + 1]
       ELSE IF getLatestFrame(S3.frameBuffer) # NoFrame
            THEN emit(S3, "frame")
            ELSE S3

\* processFrame: it has no await, so it runs to its end within the call. The
\* payload is its byte length; the decompressor is never called.
processFrame(S, metadata, payload) ==
    LET S1 == [S EXCEPT !.stats.totalFrames = @ + 1]
        S2 == updateFPS(S1)
        expectedSize == metadata.width * metadata.height * 4
        frame == [id |-> metadata.frameId, timestamp |-> S.now,
                  width |-> metadata.width, height |-> metadata.height,
                  compressed |-> metadata.compressed,
                  latency |-> metadata.latency, pixels |-> payload]
        S3 == [S2 EXCEPT !.frameBuffer = addFrame(@, frame)]
    IN IF payload # expectedSize
       THEN S2
       ELSE IF ImageDataThrows(metadata)
            THEN [S2 EXCEPT !.stats.droppedFrames = @ + 1]
            ELSE IF getLatestFrame(S3.frameBuffer) # NoFrame
                 THEN emit(S3, "frame")
                 ELSE S3

statsTick_IgnoresConnected(S) ==
    LET latestFrame == getLatestFrame(S.frameBuffer)
        S1 == IF latestFrame # NoFrame
              THEN [S EXCEPT !.stats.latency = latestFrame.latency]
              ELSE S
    IN emit(S1, "stats")

\* the callback of the interval of setupStatsTracking. The latency of a frame
\* is a number, so that latency || 0 is the latency.
statsTick(S) ==
    LET latestFrame == getLatestFrame(S.frameBuffer)
        S1 == IF latestFrame # NoFrame
              THEN [S EXCEPT !.stats.latency = latestFrame.latency]
              ELSE S
    IN IF S.isConnected THEN emit(S1, "stats") ELSE S

handleMessage_CountsUndecodable(S, data) ==
    LET frameData == parseFrameMessage(data, S.now)
        S1 == [S EXCEPT !.task.parsed = frameData]
    IN IF frameData.kind = "frame"
       THEN processFrame(S1, frameData.header, frameData.payload)
       ELSE [S1 EXCEPT !.stats.droppedFrames = @ + 1]

handleMessage(S, data) ==
    LET frameData == parseFrameMessage(data, S.now)
        S1 == [S EXCEPT !.task.parsed = frameData]
    IN IF frameData.kind = "frame"
       THEN processFrame(S1, frameData.header, frameData.payload)
       ELSE S1

onmessage_IgnoresPause(S, data) == handleMessage(S, data)

\* ws.onmessage
onmessage(S, data) ==
    IF ~S.isPaused THEN handleMessage(S, data) ELSE S

(***************************************************************************)
(* The client as a state machine: one action per call of the public API,   *)
(* per socket event and per timer callback.                                *)
(***************************************************************************)
State ==
    [ws |-> ws, reconnectAttempts |-> reconnectAttempts,
     reconnectTimer |-> reconnectTimer, heartbeatTimer |-> heartbeatTimer,
     statsTimer |-> statsTimer, isConnected |-> isConnected,
     stale |-> stale, timers |-> timers, heartbeats |-> heartbeats,
     statsInterval |-> statsInterval, task |-> task, connState |-> connState,
     delaysSinceOpen |-> delaysSinceOpen]

\* The next state is S.  The bounds of the model disable the environment's
\* actions only, and never part of a handler: reconnectAttempts counts the
\* timeouts made since the last open, so only an open (which resets it) with
\* more than MaxStaleTimers timeouts pending is excluded by the first line, and
\* only the making of a socket by the second.
Apply(S) ==
    /\ Len(S.timers) <= MaxStaleTimers + S.reconnectAttempts
    /\ LiveCount(S) <= MaxSockets
    /\ Cardinality(S.heartbeats) <= MaxHeartbeats
    /\ ws' = S.ws
    /\ reconnectAttempts' = S.reconnectAttempts
    /\ reconnectTimer' = S.reconnectTimer
    /\ heartbeatTimer' = S.heartbeatTimer
    /\ statsTimer' = S.statsTimer
    /\ isConnected' = S.isConnected
    /\ stale' = S.stale
    /\ timers' = S.timers
    /\ heartbeats' = S.heartbeats
    /\ statsInterval' = S.statsInterval
    /\ task' = S.task
    /\ connState' = S.connState
    /\ delaysSinceOpen' = S.delaysSinceOpen
    /\ UNCHANGED emitter

\* the state a new task starts from
Begin(step) == [State EXCEPT !.task = NewTask(step)]

\* the state the next step of the running task starts from
Continue(step) == [State EXCEPT !.task.step = step]

\* new StreamClient(config, logger): the field initialisers and the constructor,
\* whose setupStatsTracking starts the stats interval
InitClient ==
    /\ ws = NoSocket
    /\ reconnectAttempts = 0
    /\ reconnectTimer = NoTimer
    /\ heartbeatTimer = NoTimer
    /\ statsTimer = StatsHandle
    /\ isConnected = FALSE
    /\ stale = EmptyBag
    /\ timers = <<>>
    /\ heartbeats = {}
    /\ statsInterval = TRUE
    /\ task = [step |-> "constructor", wasConnected |-> FALSE,
               emitted |-> <<>>, scheduled |-> <<>>, created |-> FALSE,
               rejected |-> FALSE, sent |-> <<>>, msg |-> NoMessage,
               parsed |-> NotDecoded, threw |-> "none",
               input |-> NoInput, wire |-> <<>>, payload |-> <<>>]
    /\ isPaused = FALSE
    /\ currentQuality = "medium"
    /\ stats = [fps |-> 0, latency |-> 0, droppedFrames |-> 0, totalFrames |-> 0,
                frames |-> 0, lastTime |-> 0]
    /\ qualityUnsent = FALSE
    /\ connState = "Idle"
    /\ explicitDisconnect = FALSE
    /\ delaysSinceOpen = <<>>
    /\ emitter = NewEventEmitter

\* the application calls connect()
Connect ==
    /\ Quiescent
    /\ Apply(connect(Begin("connect")))
    /\ explicitDisconnect' = FALSE
    /\ UNCHANGED <<fbVars, streamVars>>

\* the application calls disconnect()
Disconnect ==
    /\ Quiescent
    /\ Apply(disconnect(Begin("disconnect")))
    /\ explicitDisconnect' = TRUE
    /\ UNCHANGED <<fbVars, streamVars>>

\* the server accepts: the open event of a socket. ws.onopen runs, then the
\* 'open' listener of waitForConnection clears the timeout and resolves
WsOpen(ref) ==
    /\ Quiescent
    /\ SocketOf(ref).readyState = "CONNECTING"
    /\ LET S1 == onopen(Begin("open"))
           sock == [SocketOf(ref) EXCEPT !.readyState = "OPEN", !.timeout = FALSE,
                                         !.promise = "settled"]
       IN Apply([SetSocket(S1, ref, sock) EXCEPT !.delaysSinceOpen = <<>>])
    /\ UNCHANGED <<fbVars, streamVars, explicitDisconnect>>

\* the connection of a socket fails (it could not be made, it broke, or close()
\* was called before it was made): the error event. ws.onerror runs, then the
\* 'error' listener of waitForConnection clears the timeout and rejects; the
\* close event follows in the same task
WsError(ref) ==
    /\ Quiescent
    /\ \/ SocketOf(ref).readyState \in {"CONNECTING", "OPEN"}
       \/ SocketOf(ref).readyState = "CLOSING" /\ SocketOf(ref).failed
    /\ LET S1 == onerror(Begin("error"))
           sock == [SocketOf(ref) EXCEPT
                       !.readyState = "CLOSED", !.timeout = FALSE,
                       !.promise = "settled",
                       !.catchDue = (SocketOf(ref).promise = "pending"),
                       !.closeDue = TRUE]
       IN Apply(SetSocket(S1, ref, sock))
    /\ UNCHANGED <<fbVars, streamVars, explicitDisconnect>>

\* the microtask after a rejection by the 'error' listener: connect()'s catch
ConnectCatch(ref) ==
    /\ SocketOf(ref).catchDue
    /\ LET S1 == connectCatch(Continue("catch"))
       IN Apply(SetSocket(S1, ref, [SocketOf(ref) EXCEPT !.catchDue = FALSE]))
    /\ UNCHANGED <<fbVars, streamVars, explicitDisconnect>>

\* the close event of a socket: after its error event, or on its own when an
\* open connection ends or a closing handshake completes
WsClose(ref) ==
    /\ \A r \in SocketRefs(ws, stale) : ~SocketOf(r).catchDue
    /\ \/ SocketOf(ref).closeDue
       \/ /\ Quiescent
          /\ SocketOf(ref).readyState \in {"OPEN", "CLOSING"}
          /\ ~SocketOf(ref).failed
    /\ LET S0 == IF SocketOf(ref).closeDue
                 THEN Continue("closeAfterError")
                 ELSE Begin("close")
       IN Apply(SetSocket(onclose(S0), ref, DeadSocket))
    /\ UNCHANGED <<fbVars, streamVars, explicitDisconnect>>

\* the 10 s timeout of waitForConnection fires for a socket and rejects; the
\* catch block of connect() runs as the microtask after it
ConnTimeout(ref) ==
    /\ Quiescent
    /\ SocketOf(ref).timeout
    /\ LET S1 == connectCatch(Begin("timeout"))
           sock == [SocketOf(ref) EXCEPT !.timeout = FALSE, !.promise = "settled"]
       IN Apply(SetSocket(S1, ref, sock))
    /\ UNCHANGED <<fbVars, streamVars, explicitDisconnect>>

\* a timeout made after another one, with a delay no shorter, fires after it
MayFire(i) == \A j \in 1..(i - 1) : timers[j].delay > timers[i].delay

\* the callback of the setTimeout of scheduleReconnect: connect()
ReconnectFire(i) ==
    /\ Quiescent
    /\ MayFire(i)
    /\ LET S0 == [Begin("reconnectTimer") EXCEPT
                     !.timers = RemoveAt(@, i),
                     !.reconnectTimer = HandleAfterFire(@, i)]
       IN Apply(connect(S0))
    /\ UNCHANGED <<fbVars, streamVars, explicitDisconnect>>

\* a heartbeat interval fires: every running interval has the same callback
HeartbeatTick ==
    /\ Quiescent
    /\ heartbeats # {}
    /\ Apply(heartbeatTick(Begin("heartbeat")))
    /\ UNCHANGED <<fbVars, streamVars, explicitDisconnect>>

Init ==
    /\ frameBuffer = NewFrameBuffer(BufferSize)
    /\ now = 0
    /\ added = <<>>
    /\ removed = FALSE
    /\ fbOp = NoCall
    /\ InitClient

Next ==
    \/ Connect
    \/ Disconnect
    \/ \E ref \in SocketRefs(ws, stale) : WsOpen(ref)
    \/ \E ref \in SocketRefs(ws, stale) : WsError(ref)
    \/ \E ref \in SocketRefs(ws, stale) : ConnectCatch(ref)
    \/ \E ref \in SocketRefs(ws, stale) : WsClose(ref)
    \/ \E ref \in SocketRefs(ws, stale) : ConnTimeout(ref)
    \/ \E i \in 1..Len(timers) : ReconnectFire(i)

Spec == Init /\ [][Next]_vars

\* the connection state machine with the heartbeat intervals firing
NextHeartbeat ==
    \/ Next
    \/ HeartbeatTick

SpecHeartbeat == Init /\ [][NextHeartbeat]_vars

\* What the host guarantees: a microtask runs, the close event follows the error
\* event, a socket that close() was called on is closed, and a timeout that is
\* due fires once the running task has ended.
CloseOfClosing ==
    \E ref \in SocketRefs(ws, stale) :
        SocketOf(ref).readyState = "CLOSING" /\ (WsError(ref) \/ WsClose(ref))

Fairness ==
    /\ WF_vars(\E ref \in SocketRefs(ws, stale) : ConnectCatch(ref))
    /\ WF_vars(\E ref \in SocketRefs(ws, stale) : WsClose(ref) /\ SocketOf(ref).closeDue)
    /\ WF_vars(CloseOfClosing)
    /\ SF_vars(\E i \in 1..Len(timers) : ReconnectFire(i))

FairSpec == Spec /\ Fairness

(***************************************************************************)
(* The message path as a state machine: the client with its sockets, the   *)
(* calls of pause and resume, and the message events.                      *)
(***************************************************************************)
MaxProcessed == 2     \* messages that reach processFrame in one run
MaxWidth == 1         \* metadata.width is in 0..MaxWidth
MaxPayload == 4       \* payloads of 0..MaxPayload bytes
MaxHeader == 2        \* the header length the sender writes

\* what JSON.parse makes of the header bytes
JsonOutcomes == {"malformed", "null", "object"}

\* the headers a server sends: frames one pixel high, with one frame id, stamped
\* at the time the client was made
Metas == [width : 0..MaxWidth, height : {1}, compressed : BOOLEAN,
          timestamp : {0}, frameId : {1}]

\* the metadata of a message whose header JSON.parse does not turn into an object
AnyMeta == [width |-> 1, height |-> 1, compressed |-> FALSE, timestamp |-> 0,
            frameId |-> 1]

\* a message with a header of MaxHeader bytes and a payload of payload bytes
FrameMessage(json, meta, payload, rawLen) ==
    [len |-> 4 + MaxHeader + payload, head |-> <<MaxHeader, 0, 0, 0>>,
     json |-> json, meta |-> meta, rawLen |-> rawLen]

\* a message cut off after n bytes, n < 4 + MaxHeader
CutMessage(n) ==
    [len |-> n, head |-> SubSeq(<<MaxHeader, 0, 0, 0>>, 1, Min(n, 4)),
     json |-> "malformed", meta |-> AnyMeta, rawLen |-> 0]

\* the messages a server can send: a compressed payload stands for pixel data
\* of the right length or of its own length, or is no compressed data at all
StreamMessages ==
    {CutMessage(n) : n \in 0..(3 + MaxHeader)}
    \cup {FrameMessage(json, AnyMeta, payload, payload) :
            json \in {"malformed", "null"}, payload \in 0..MaxPayload}
    \cup UNION {{FrameMessage("object", meta, payload, rawLen) :
                    rawLen \in IF meta.compressed
                                THEN {payload, meta.width * meta.height * 4,
                                      DecompressionFails}
                                ELSE {payload}} :
                 meta \in Metas, payload \in 0..MaxPayload}

StreamState ==
    State @@ [frameBuffer |-> frameBuffer, isPaused |-> isPaused,
              currentQuality |-> currentQuality, stats |-> stats, now |-> now]

\* a new task of the message path starts from this state
BeginStream(step) == [StreamState EXCEPT !.task = NewTask(step)]

\* the next state is S; a message that would be one too many for processFrame
\* is not delivered
ApplyStream(S) ==
    /\ Apply(S)
    /\ S.stats.totalFrames <= MaxProcessed
    /\ frameBuffer' = S.frameBuffer
    /\ isPaused' = S.isPaused
    /\ currentQuality' = S.currentQuality
    /\ stats' = S.stats

\* the application calls pause()
Pause ==
    /\ Quiescent
    /\ ApplyStream(pause(BeginStream("pause")))
    /\ UNCHANGED <<now, added, removed, fbOp, explicitDisconnect, qualityUnsent>>

\* the application calls resume()
Resume ==
    /\ Quiescent
    /\ ApplyStream(resume(BeginStream("resume")))
    /\ UNCHANGED <<now, added, removed, fbOp, explicitDisconnect, qualityUnsent>>

\* the names setQuality is called with: the keys and an unknown one
QualityArgs == QualityNames \cup {"ultra"}

\* the application calls setQuality(quality)
SetQuality(quality) ==
    /\ Quiescent
    /\ ApplyStream(setQuality(BeginStream("setQuality"), quality))
    /\ qualityUnsent' = (ws.readyState # "OPEN")
    /\ UNCHANGED <<now, added, removed, fbOp, explicitDisconnect>>

\* a message event of a socket: messages arrive while the connection is open
\* and while its closing handshake runs
WsMessage(ref, data) ==
    /\ Quiescent
    /\ \/ SocketOf(ref).readyState = "OPEN"
       \/ SocketOf(ref).readyState = "CLOSING" /\ ~SocketOf(ref).failed
    /\ LET S0 == [BeginStream("message") EXCEPT !.task.msg = data]
       IN ApplyStream(onmessage(S0, data))
    /\ UNCHANGED <<now, added, removed, fbOp, explicitDisconnect, qualityUnsent>>

\* the stats interval fires
StatsTick ==
    /\ Quiescent
    /\ statsInterval
    /\ ApplyStream(statsTick(BeginStream("stats")))
    /\ UNCHANGED <<now, added, removed, fbOp, explicitDisconnect, qualityUnsent>>

NextStream ==
    \/ Connect
    \/ \E ref \in SocketRefs(ws, stale) : WsOpen(ref)
    \/ \E ref \in SocketRefs(ws, stale) : WsClose(ref)
    \/ \E i \in 1..Len(timers) : ReconnectFire(i)
    \/ Pause
    \/ Resume
    \/ \E ref \in SocketRefs(ws, stale), data \in StreamMessages : WsMessage(ref, data)

SpecStream == Init /\ [][NextStream]_vars

(***************************************************************************)
(* The stats interval over the connection state machine.                   *)
(***************************************************************************)
NextStats ==
    \/ Next
    \/ StatsTick

SpecStats == Init /\ [][NextStats]_vars

(***************************************************************************)
(* The FPS counter against the clock: a connection, its messages, the      *)
(* stats interval, and the seconds that pass between them.                 *)
(***************************************************************************)
MaxSeconds == 3       \* the clock runs for MaxSeconds seconds

\* a second passes with no message
Elapse ==
    /\ Quiescent
    /\ now < MaxSeconds * FpsWindow
    /\ now' = now + FpsWindow
    /\ UNCHANGED <<frameBuffer, added, removed, fbOp, clientVars, streamVars, emitterVars>>

NextFps ==
    \/ Connect
    \/ \E ref \in SocketRefs(ws, stale) : WsOpen(ref)
    \/ \E ref \in SocketRefs(ws, stale), data \in StreamMessages : WsMessage(ref, data)
    \/ StatsTick
    \/ Elapse

SpecFps == Init /\ [][NextFps]_vars

(***************************************************************************)
(* A session from connect() to disconnect(): the frames received in it.    *)
(***************************************************************************)
NextSession ==
    \/ Connect
    \/ Disconnect
    \/ \E ref \in SocketRefs(ws, stale) : WsOpen(ref)
    \/ \E ref \in SocketRefs(ws, stale), data \in StreamMessages : WsMessage(ref, data)

SpecSession == Init /\ [][NextSession]_vars

(***************************************************************************)
(* The quality control as a state machine: the client with its sockets and *)
(* the calls of setQuality.                                                *)
(***************************************************************************)
NextQuality ==
    \/ Connect
    \/ Disconnect
    \/ \E ref \in SocketRefs(ws, stale) : WsOpen(ref)
    \/ \E ref \in SocketRefs(ws, stale) : WsClose(ref)
    \/ \E i \in 1..Len(timers) : ReconnectFire(i)
    \/ \E quality \in QualityArgs : SetQuality(quality)

SpecQuality == Init /\ [][NextQuality]_vars

(***************************************************************************)
(* parseFrameMessage on its own: any message, parsed once.                 *)
(***************************************************************************)
MaxMsgLen == 8        \* messages of 0..MaxMsgLen bytes
MaxByte == 5          \* the first byte of a message is in 0..MaxByte
MaxHighByte == 1      \* its second, third and fourth byte are in 0..MaxHighByte

ParseInputs ==
    {[len |-> n, head |-> SubSeq(<<b1, b2, b3, b4>>, 1, Min(n, 4)),
      json |-> json, meta |-> AnyMeta, rawLen |-> 0] :
        n \in 0..MaxMsgLen, b1 \in 0..MaxByte, b2 \in 0..MaxHighByte,
        b3 \in 0..MaxHighByte, b4 \in 0..MaxHighByte, json \in JsonOutcomes}

InitParse ==
    /\ frameBuffer = NewFrameBuffer(BufferSize)
    /\ now = 0
    /\ added = <<>>
    /\ removed = FALSE
    /\ fbOp = NoCall
    /\ ws = NoSocket
    /\ reconnectAttempts = 0
    /\ reconnectTimer = NoTimer
    /\ heartbeatTimer = NoTimer
    /\ statsTimer = StatsHandle
    /\ isConnected = FALSE
    /\ stale = EmptyBag
    /\ timers = <<>>
    /\ heartbeats = {}
    /\ statsInterval = TRUE
    /\ \E data \in ParseInputs : task = [NewTask("received") EXCEPT !.msg = data]
    /\ isPaused = FALSE
    /\ currentQuality = "medium"
    /\ stats = [fps |-> 0, latency |-> 0, droppedFrames |-> 0, totalFrames |-> 0,
                frames |-> 0, lastTime |-> 0]
    /\ qualityUnsent = FALSE
    /\ connState = "Idle"
    /\ explicitDisconnect = FALSE
    /\ delaysSinceOpen = <<>>
    /\ emitter = NewEventEmitter

\* parseFrameMessage(data) is called on the message received
ParseMessage ==
    /\ task.step = "received"
    /\ task' = [task EXCEPT !.step = "parsed", !.parsed = parseFrameMessage(task.msg, now)]
    /\ UNCHANGED <<fbVars, streamVars, ws, reconnectAttempts, reconnectTimer,
                   heartbeatTimer, statsTimer, isConnected, stale, timers,
                   heartbeats, statsInterval, connState, explicitDisconnect,
                   delaysSinceOpen, emitter>>

NextParse == ParseMessage

SpecParse == InitParse /\ [][NextParse]_vars

(***************************************************************************)
(* The codec round trip: a frame is encoded by the producer, and the bytes *)
(* are parsed by parseFrameMessage.                                        *)
(***************************************************************************)
\* the frames a producer encodes: a header and a payload of bits
CodecInputs ==
    [meta : [width : 0..MaxWidth, height : 0..1, compressed : BOOLEAN,
             timestamp : 0..1, frameId : 1..2],
     payload : UNION {[1..n -> 0..1] : n \in 0..MaxPayload}]

InitCodec ==
    /\ frameBuffer = NewFrameBuffer(BufferSize)
    /\ now = 0
    /\ added = <<>>
    /\ removed = FALSE
    /\ fbOp = NoCall
    /\ ws = NoSocket
    /\ reconnectAttempts = 0
    /\ reconnectTimer = NoTimer
    /\ heartbeatTimer = NoTimer
    /\ statsTimer = StatsHandle
    /\ isConnected = FALSE
    /\ stale = EmptyBag
    /\ timers = <<>>
    /\ heartbeats = {}
    /\ statsInterval = TRUE
    /\ \E frame \in CodecInputs : task = [NewTask("frame") EXCEPT !.input = frame]
    /\ isPaused = FALSE
    /\ currentQuality = "medium"
    /\ stats = [fps |-> 0, latency |-> 0, droppedFrames |-> 0, totalFrames |-> 0,
                frames |-> 0, lastTime |-> 0]
    /\ qualityUnsent = FALSE
    /\ connState = "Idle"
    /\ explicitDisconnect = FALSE
    /\ delaysSinceOpen = <<>>
    /\ emitter = NewEventEmitter

\* the producer encodes the frame
EncodeFrame ==
    /\ task.step = "frame"
    /\ task' = [task EXCEPT !.step = "encoded",
                            !.wire = encodeFrame(task.input.meta, task.input.payload)]
    /\ UNCHANGED <<fbVars, streamVars, ws, reconnectAttempts, reconnectTimer,
                   heartbeatTimer, statsTimer, isConnected, stale, timers,
                   heartbeats, statsInterval, connState, explicitDisconnect,
                   delaysSinceOpen, emitter>>

\* parseFrameMessage(data) is called on the bytes of the wire
DecodeFrame ==
    /\ task.step = "encoded"
    /\ LET data == ArrayBufferOf(task.wire)
           frameData == parseFrameMessage(data, now)
       IN task' = [task EXCEPT !.step = "decoded", !.msg = data,
                               !.parsed = frameData,
                               !.payload = IF frameData.kind = "frame"
                                           THEN payloadOf(task.wire)
                                           ELSE <<>>]
    /\ UNCHANGED <<fbVars, streamVars, ws, reconnectAttempts, reconnectTimer,
                   heartbeatTimer, statsTimer, isConnected, stale, timers,
                   heartbeats, statsInterval, connState, explicitDisconnect,
                   delaysSinceOpen, emitter>>

NextCodec ==
    \/ EncodeFrame
    \/ DecodeFrame

SpecCodec == InitCodec /\ [][NextCodec]_vars

(***************************************************************************)
(* The FrameBuffer on its own: any caller, any order of calls.             *)
(***************************************************************************)
InitFB ==
    /\ \E n \in 0..MaxCapacity : frameBuffer = NewFrameBuffer(n)
    /\ now = 0
    /\ added = <<>>
    /\ removed = FALSE
    /\ fbOp = NoCall
    /\ InitClient

AddFrame ==
    /\ Len(added) < MaxFrames
    /\ LET frame == BufferedFrame(Len(added) + 1, now)
       IN /\ frameBuffer' = addFrame(frameBuffer, frame)
          /\ added' = Append(added, frame)
          /\ fbOp' = [NoCall EXCEPT !.op = "addFrame", !.ret = frame]
    /\ UNCHANGED <<now, removed, clientVars, streamVars, emitterVars>>

NextFrame ==
    /\ frameBuffer' = nextFrame(frameBuffer)
    /\ fbOp' = [NoCall EXCEPT !.op = "nextFrame", !.ret = getCurrentFrame(frameBuffer')]
    /\ UNCHANGED <<now, added, removed, clientVars, streamVars, emitterVars>>

PreviousFrame ==
    /\ frameBuffer' = previousFrame(frameBuffer)
    /\ fbOp' = [NoCall EXCEPT !.op = "previousFrame", !.ret = getCurrentFrame(frameBuffer')]
    /\ UNCHANGED <<now, added, removed, clientVars, streamVars, emitterVars>>

SeekToLatest ==
    /\ frameBuffer' = seekToLatest(frameBuffer)
    /\ fbOp' = [NoCall EXCEPT !.op = "seekToLatest", !.ret = getCurrentFrame(frameBuffer')]
    /\ UNCHANGED <<now, added, removed, clientVars, streamVars, emitterVars>>

Clear ==
    /\ frameBuffer' = clear(frameBuffer)
    /\ removed' = (removed \/ Len(frameBuffer.buffer) > 0)
    /\ fbOp' = [NoCall EXCEPT !.op = "clear", !.ret = NoFrame]
    /\ UNCHANGED <<now, added, clientVars, streamVars, emitterVars>>

DropOldFrames ==
    \E maxAge \in 0..MaxAge :
        /\ frameBuffer' = dropOldFrames(frameBuffer, now, maxAge)
        /\ removed' = (removed \/ DropCount(frameBuffer.buffer, now, maxAge) > 0)
        /\ fbOp' = [op |-> "dropOldFrames", ret |-> NoFrame,
                    n |-> DropCount(frameBuffer.buffer, now, maxAge),
                    arg |-> maxAge, at |-> now,
                    again |-> /\ fbOp.op = "dropOldFrames"
                              /\ fbOp.arg = maxAge
                              /\ fbOp.at = now]
        /\ UNCHANGED <<now, added, clientVars, streamVars, emitterVars>>

\* time passes between calls
Tick ==
    /\ now < MaxTime
    /\ now' = now + 1
    /\ UNCHANGED <<frameBuffer, added, removed, fbOp, clientVars, streamVars, emitterVars>>

NextFB ==
    \/ AddFrame
    \/ NextFrame
    \/ PreviousFrame
    \/ SeekToLatest
    \/ Clear
    \/ DropOldFrames
    \/ Tick

SpecFB == InitFB /\ [][NextFB]_vars

(***************************************************************************)
(* Claims about the FrameBuffer (checked under SpecFB).                    *)
(***************************************************************************)
\* the last n elements of a sequence
LastN(s, n) == SubSeq(s, Len(s) - n + 1, Len(s))

\* C1: for every sequence of addFrame calls on a FrameBuffer of capacity N the
\* length never exceeds N, and (as long as nothing was dropped or cleared) the
\* buffer holds exactly the last min(calls, N) frames added, in arrival order;
\* getFrame(0) is then the oldest of them and getLatestFrame() the newest.
C1_LastFramesKept ==
    /\ getBufferSize(frameBuffer) <= frameBuffer.maxSize
    /\ ~removed =>
        LET kept == Min(Len(added), frameBuffer.maxSize)
        IN /\ frameBuffer.buffer = LastN(added, kept)
           /\ kept > 0 =>
                /\ getFrame(frameBuffer, 0) = added[Len(added) - kept + 1]
                /\ getLatestFrame(frameBuffer) = added[Len(added)]

\* C1 witness: the spec's scenario, 5 frames into capacity 3
C1_Witness ==
    /\ frameBuffer.maxSize = 3
    /\ Len(added) = 5
    /\ ~removed
    /\ getBufferSize(frameBuffer) = 3
    /\ getFrame(frameBuffer, 0).id = 3
    /\ getLatestFrame(frameBuffer).id = 5

\* C2: after any sequence of addFrame, nextFrame, previousFrame, seekToLatest,
\* dropOldFrames and clear, 0 <= currentIndex < length whenever length > 0.
C2_CursorInRange ==
    Len(frameBuffer.buffer) > 0 =>
        /\ 0 <= frameBuffer.currentIndex
        /\ frameBuffer.currentIndex < Len(frameBuffer.buffer)

\* C2 witness: the cursor was moved off the newest frame, then head frames
\* were dropped from under it and frames remain
C2_Witness ==
    /\ fbOp.op = "dropOldFrames"
    /\ fbOp.n > 0
    /\ Len(frameBuffer.buffer) > 0
    /\ frameBuffer.currentIndex = 0
    /\ frameBuffer.currentIndex < Len(frameBuffer.buffer) - 1

(***************************************************************************)
(* Claims about the connection state machine (checked under Spec).         *)
(***************************************************************************)
\* C3: after disconnect() (and until the application calls connect() again) no
\* reconnect is scheduled and no timer-driven connection attempt is made,
\* whatever event arrives, the close event of the closed socket included.
C3_NoReconnectAfterDisconnect ==
    explicitDisconnect =>
        /\ task.scheduled = <<>>
        /\ ~(task.step = "reconnectTimer" /\ task.created)

\* C4: when disconnect() returns, no reconnect timeout, heartbeat interval or
\* stats interval made before it is still pending.
C4_DisconnectClearsEveryTimer ==
    task.step = "disconnect" =>
        /\ timers = <<>>
        /\ heartbeats = {}
        /\ ~statsInterval

\* C5: the reconnects scheduled since the last open (or since construction) have
\* the delays base, 2*base, 4*base, ...: the k-th has base * 2^(k-1), k being the
\* value of the attempt counter after its increment.
C5_BackoffDelays ==
    /\ Len(delaysSinceOpen) = reconnectAttempts
    /\ \A k \in 1..Len(delaysSinceOpen) :
            delaysSinceOpen[k] = ReconnectDelay * Pow2(k - 1)

\* C5 witness: all five reconnects of one outage were scheduled, the last with
\* 16 times the base delay
C5_Witness ==
    /\ Len(delaysSinceOpen) = ReconnectAttempts
    /\ delaysSinceOpen[ReconnectAttempts] = 16 * ReconnectDelay
    /\ Len(task.scheduled) > 0

\* C6: the attempt counter never exceeds the configured maximum, and no more
\* than the maximum number of reconnects is scheduled between two opens: a
\* failure handled with the counter at the maximum schedules nothing, so a
\* server that never accepts is retried a bounded number of times.
C6_AttemptsBounded ==
    /\ reconnectAttempts <= ReconnectAttempts
    /\ Len(delaysSinceOpen) <= ReconnectAttempts

\* The eventual part of C6, under FairSpec: if no socket ever opens, the client
\* ends with no reconnect timeout pending, for good.
EventuallyQuiet ==
    [](connState # "Connected") => <>[](timers = <<>>)

\* C6 witness: a close event handled with the counter at the maximum schedules
\* no reconnect
C6_Witness ==
    /\ reconnectAttempts = ReconnectAttempts
    /\ task.step \in {"close", "closeAfterError"}
    /\ task.scheduled = <<>>

\* C7: when the transport closes while the client is Connected, a
\* 'disconnected' event is published and exactly one reconnect is scheduled,
\* with the base delay.
C7_CloseSchedulesOneBaseDelay ==
    (task.step \in {"close", "closeAfterError"} /\ task.wasConnected) =>
        /\ \E n \in 1..Len(task.emitted) : task.emitted[n] = "disconnected"
        /\ task.scheduled = <<ReconnectDelay>>

\* the fields of the client and the objects of its host
clientState == <<ws, stale, isConnected, reconnectAttempts, reconnectTimer,
                 heartbeatTimer, statsTimer, timers, heartbeats, statsInterval>>

\* C8: connect() called while the client is Connecting or Connected opens no
\* transport and changes no field, timer or socket of the client; so does the
\* connect() of a reconnect timeout, whose own firing is all that changes.
\* (The step of connect() is the one that begins the task "connect", the
\* firing of a reconnect timeout the one that begins "reconnectTimer".)
C8_ConnectIsNoOp ==
    [][/\ (task'.step = "connect" /\ connState \in {"Connecting", "Connected"})
            => /\ UNCHANGED <<clientState, connState>>
               /\ ~task'.created
       /\ (task'.step = "reconnectTimer"
              /\ connState \in {"Connecting", "Connected"})
            => /\ UNCHANGED <<ws, stale, isConnected, reconnectAttempts,
                              heartbeatTimer, statsTimer, heartbeats,
                              statsInterval, connState>>
               /\ ~task'.created
               /\ Len(timers') = Len(timers) - 1]_vars

\* C8 witness: connect() was called on a client that is Connecting, and made no
\* socket
C8_Witness ==
    /\ task.step = "connect"
    /\ ~task.created
    /\ ws.readyState = "CONNECTING"
    /\ connState = "Connecting"

\* C9: when a reconnect timeout fires on a client that is Disconnected or
\* Errored, a new transport is opened and the client is Connecting.
C9_ReconnectStartsAttempt ==
    [][((\E i \in 1..Len(timers) : ReconnectFire(i))
            /\ connState \in {"Disconnected", "Errored"})
        => (task'.created /\ connState' = "Connecting")]_vars

\* C10: when connect() fails, by an error event of the socket it awaits or by
\* the connection timeout, its promise is rejected, the client is not connected
\* (Errored) and an 'error' event was published.
C10_FailedConnectRejects ==
    task.step \in {"catch", "timeout"} =>
        /\ task.rejected
        /\ ~isConnected
        /\ connState = "Errored"
        /\ \E n \in 1..Len(task.emitted) : task.emitted[n] = "error"

\* C10 witness: the socket connect() awaited raised an error event; ws.onerror
\* and then the catch block of connect() each published 'error'
C10_Witness ==
    /\ task.step = "catch"
    /\ task.rejected
    /\ task.emitted = <<"error", "error">>
    /\ ~isConnected

\* C11: when a connection is lost with the attempt counter at the maximum, so
\* that the task schedules no reconnect, an 'error' event is published.
C11_ExhaustionPublishesError ==
    (/\ task.step \in {"close", "closeAfterError"}
     /\ reconnectAttempts = ReconnectAttempts
     /\ task.scheduled = <<>>)
        => \E n \in 1..Len(task.emitted) : task.emitted[n] = "error"

\* C12: when a socket opens the attempt counter is 0, a heartbeat interval was
\* started and is the one the client tracks, and 'connected' was published; a
\* heartbeat tick sends one ping when the socket this.ws holds is open and
\* nothing otherwise.  (Under SpecHeartbeat, where the intervals fire.)
C12_OpenResetsAndStartsHeartbeat ==
    /\ task.step = "open" =>
          /\ reconnectAttempts = 0
          /\ heartbeatTimer \in heartbeats
          /\ isConnected
          /\ task.emitted = <<"connected">>
    /\ task.step = "heartbeat" =>
          task.sent = IF ws.readyState = "OPEN" THEN <<Ping>> ELSE <<>>

\* C12 witness: a socket opened after a reconnect timeout had fired, so the
\* counter was reset from a positive value
C12_Witness ==
    /\ task.step = "open"
    /\ reconnectTimer = Stale
    /\ reconnectAttempts = 0
    /\ heartbeats # {}

\* C13: when the task of a close event, of an error event or of a connection
\* timeout that found the client connected has ended, no heartbeat interval
\* is running.
C13_HeartbeatStoppedOnLoss ==
    (/\ Quiescent
     /\ task.step \in {"close", "closeAfterError", "timeout"}
     /\ task.wasConnected)
        => heartbeats = {}

(***************************************************************************)
(* Claims about the message path (checked under SpecStream, SpecQuality    *)
(* and SpecParse).                                                         *)
(***************************************************************************)
\* C14: a message event handled while the client is paused decodes nothing,
\* inserts nothing into the FrameBuffer, publishes no event and leaves the
\* stats counters as they were; handled while it is not paused, the message is
\* decoded.
C14_PausedMessageHasNoEffect ==
    [][/\ (task'.step = "message" /\ isPaused) =>
            /\ task'.parsed = NotDecoded
            /\ task'.emitted = <<>>
            /\ UNCHANGED <<frameBuffer, stats, isPaused>>
       /\ (task'.step = "message" /\ ~isPaused) =>
            task'.parsed = parseFrameMessage(task'.msg, now)]_vars

\* C14 witness: a frame was processed, then pause() was called and a valid
\* frame arrived and was ignored
C14_Witness ==
    /\ task.step = "message"
    /\ isPaused
    /\ task.msg.json = "object"
    /\ task.msg.len = 4 + MaxHeader + 4
    /\ task.msg.meta.width = 1
    /\ task.parsed = NotDecoded
    /\ getBufferSize(frameBuffer) = 1
    /\ stats.totalFrames = 1

\* C15: setQuality with a name that is no key of QualitySettings fails with a
\* ConfigError, sends nothing and leaves the active quality as it was.
C15_UnknownQualityRejected ==
    [][\A quality \in QualityArgs \ QualityNames :
            SetQuality(quality) =>
                /\ task'.threw = "ConfigError"
                /\ task'.sent = <<>>
                /\ currentQuality' = currentQuality]_vars

\* C16: when the last setQuality call found no open socket and so sent
\* nothing, the next open sends the quality message of the level it set.
C16_QualitySentOnOpen ==
    (task.step = "open" /\ qualityUnsent) =>
        \E n \in 1..Len(task.sent) : task.sent[n] = QualityMessage(currentQuality)

\* C17: a message shorter than 4 bytes, or shorter than 4 + headerLength with
\* headerLength its first four bytes read little-endian, parses to null ("no
\* frame") and nothing is thrown.
C17_ShortMessageYieldsNoFrame ==
    task.step = "parsed" =>
        /\ task.threw = "none"
        /\ (IF task.msg.len < 4
            THEN TRUE
            ELSE task.msg.len < 4 + (task.msg.head[1] + 256 * task.msg.head[2]
                                      + 65536 * task.msg.head[3]
                                      + 16777216 * task.msg.head[4]))
                => task.parsed = NoFrameData

\* C17 witness: a message of full length whose fourth byte makes the
\* little-endian header length 2^24 was parsed to null
C17_Witness ==
    /\ task.step = "parsed"
    /\ task.msg.len = MaxMsgLen
    /\ task.msg.head = <<0, 0, 0, 1>>
    /\ task.msg.json = "object"
    /\ task.parsed = NoFrameData

\* the message is too short for its header, or its header is no JSON object
DecodeFails(m) == m.len < 4 + MaxHeader \/ m.json # "object"

\* the message decodes to a frame whose payload has the size of its header
ValidFrame(m) ==
    /\ ~DecodeFails(m)
    /\ m.len - (4 + MaxHeader) = m.meta.width * m.meta.height * 4
    /\ m.meta.width > 0

\* C18: a message that fails to decode changes no field, socket, timer,
\* FrameBuffer content or stats counter of the client and publishes no event;
\* a valid message that follows it is processed.
C18_UndecodableMessageDropped ==
    [][/\ (task'.step = "message" /\ ~isPaused /\ DecodeFails(task'.msg)) =>
            /\ UNCHANGED <<clientState, connState, frameBuffer, stats>>
            /\ task'.emitted = <<>>
            /\ task'.threw = "none"
       /\ (/\ task.step = "message" /\ task.parsed = NoFrameData
           /\ task'.step = "message" /\ ~isPaused /\ ValidFrame(task'.msg)) =>
            /\ task'.emitted = <<"frame">>
            /\ getLatestFrame(frameBuffer').pixels = task'.msg.len - (4 + MaxHeader)]_vars

\* C18 witness: on a connected client with a reconnect history and a frame in
\* the buffer, a message with a malformed header was dropped
C18_Witness ==
    /\ task.step = "message"
    /\ task.msg.json = "malformed"
    /\ task.msg.len >= 4 + MaxHeader
    /\ task.parsed = NoFrameData
    /\ isConnected
    /\ getBufferSize(frameBuffer) = 1

\* C19: every frame in the FrameBuffer has pixels.length = width * height * 4,
\* and a message whose payload length differs from that publishes no 'frame'.
C19_SizeMismatchRejected ==
    /\ \A i \in 1..Len(frameBuffer.buffer) :
            frameBuffer.buffer[i].pixels
                = frameBuffer.buffer[i].width * frameBuffer.buffer[i].height * 4
    /\ (/\ task.step = "message"
        /\ task.parsed.kind = "frame"
        /\ task.parsed.payload
              # task.parsed.header.width * task.parsed.header.height * 4)
          => task.emitted = <<>>

\* C19 witness: a frame of width 1 and height 1 with a payload of 2 bytes reached
\* processFrame and was not inserted
C19_Witness ==
    /\ task.step = "message"
    /\ task.parsed.kind = "frame"
    /\ task.parsed.header.width = 1
    /\ task.parsed.payload = 2
    /\ stats.totalFrames = 1
    /\ getBufferSize(frameBuffer) = 0
    /\ task.emitted = <<>>

\* C20: a frame with compressed = true whose payload decompresses to
\* width * height * 4 bytes is inserted with the decompressed pixels and
\* published as a 'frame' event.
C20_CompressedFrameDecompressed ==
    (/\ task.step = "message"
     /\ ~isPaused
     /\ ~DecodeFails(task.msg)
     /\ task.msg.meta.compressed
     /\ task.msg.meta.width > 0
     /\ task.msg.rawLen = task.msg.meta.width * task.msg.meta.height * 4)
        => /\ task.emitted = <<"frame">>
           /\ getLatestFrame(frameBuffer).pixels = task.msg.rawLen

\* C21: when the payload of a compressed frame fails to decompress, the frame
\* is dropped (not inserted, no 'frame' event), droppedFrames grows by exactly
\* one, and the connection stays up.
C21_DecompressionFailureCounted ==
    [][(/\ task'.step = "message"
        /\ ~isPaused
        /\ ~DecodeFails(task'.msg)
        /\ task'.msg.meta.compressed
        /\ task'.msg.rawLen = DecompressionFails) =>
            /\ frameBuffer' = frameBuffer
            /\ task'.emitted = <<>>
            /\ stats'.droppedFrames = stats.droppedFrames + 1
            /\ UNCHANGED <<ws, isConnected, connState>>]_vars

\* C22: no 'stats' event is published while the client is not connected:
\* before the first open, after a close or an error, after disconnect().
C22_NoStatsWhileDisconnected ==
    (task.step = "stats" /\ task.emitted # <<>>) =>
        /\ task.emitted = <<"stats">>
        /\ isConnected
        /\ connState = "Connected"
        /\ ws.readyState = "OPEN"

\* C22 witness: the interval fired on a client that has lost its connection
\* and waits to reconnect, and published nothing
C22_Witness ==
    /\ task.step = "stats"
    /\ task.emitted = <<>>
    /\ ~isConnected
    /\ connState = "Disconnected"
    /\ reconnectTimer # NoTimer

\* C23: whenever the client is connected the stats interval is running, so
\* that every 1-second tick publishes a 'stats' event; this holds for every
\* connection of the client's lifetime, also one made by connect() after an
\* earlier disconnect().
C23_StatsOnEveryConnection ==
    (isConnected /\ ws.readyState = "OPEN") => statsInterval

\* C24: the FPS window counter grows only for accepted frames: a frame that
\* is rejected for its payload size leaves the frame counter that becomes
\* stats.fps, and stats.fps itself, as they were.
C24_RejectedFrameNotCounted ==
    [][(/\ task'.step = "message"
        /\ task'.parsed.kind = "frame"
        /\ task'.parsed.payload
              # task'.parsed.header.width * task'.parsed.header.height * 4) =>
            /\ stats'.frames = stats.frames
            /\ stats'.fps = stats.fps]_vars

\* C25: once per second the frame counter is snapshotted into fps and reset,
\* whether frames arrive or not: the fps of a 'stats' event is the number of
\* frames of the last completed window, so it is 0 when no frame was counted
\* for two seconds or more.
C25_EmptyWindowGivesZeroFps ==
    (/\ task.step = "stats"
     /\ task.emitted = <<"stats">>
     /\ now - stats.lastTime >= 2 * FpsWindow)
        => stats.fps = 0 /\ stats.frames = 0

\* C26: frames are processed in delivery order, with no reordering and no
\* deduplication: every message delivered while the client is not paused that
\* decodes and validates publishes exactly one 'frame' event, in the task of
\* its delivery, for the frame it has just appended to the FrameBuffer behind
\* the frames of the earlier messages; any other message publishes none and
\* leaves the FrameBuffer as it was.
C26_FramesInDeliveryOrder ==
    [][task'.step = "message" =>
        IF ~isPaused /\ ValidFrame(task'.msg)
        THEN LET f == getLatestFrame(frameBuffer')
                 kept == Min(Len(frameBuffer.buffer) + 1, frameBuffer.maxSize)
             IN /\ task'.emitted = <<"frame">>
                /\ f.id = task'.msg.meta.frameId
                /\ f.width = task'.msg.meta.width
                /\ f.height = task'.msg.meta.height
                /\ f.compressed = task'.msg.meta.compressed
                /\ f.pixels = task'.msg.len - (4 + MaxHeader)
                /\ f.timestamp = now
                /\ frameBuffer'.buffer = LastN(Append(frameBuffer.buffer, f), kept)
        ELSE /\ task'.emitted = <<>>
             /\ frameBuffer' = frameBuffer]_vars

\* C26 witness: two messages with the same frame id were delivered, the one
\* marked compressed first, and both frames are in the buffer in that order
C26_Witness ==
    /\ task.step = "message"
    /\ task.emitted = <<"frame">>
    /\ ~task.msg.meta.compressed
    /\ Len(frameBuffer.buffer) = 2
    /\ frameBuffer.buffer[1].id = frameBuffer.buffer[2].id
    /\ frameBuffer.buffer[1].compressed
    /\ ~frameBuffer.buffer[2].compressed

\* C27: decoding the message 'uint32_le headerLength + JSON header + payload'
\* of any FrameMetadata and payload yields a header whose width, height,
\* compressed, timestamp and frameId are the encoded ones, and a payload that
\* is the bytes after offset 4 + headerLength, which are the encoded payload.
C27_CodecRoundTrip ==
    task.step = "decoded" =>
        /\ task.parsed.kind = "frame"
        /\ task.parsed.header.width = task.input.meta.width
        /\ task.parsed.header.height = task.input.meta.height
        /\ task.parsed.header.compressed = task.input.meta.compressed
        /\ task.parsed.header.timestamp = task.input.meta.timestamp
        /\ task.parsed.header.frameId = task.input.meta.frameId
        /\ task.parsed.payload = Len(task.input.payload)
        /\ task.payload = task.input.payload
        /\ task.payload
              = SubSeq(task.wire, 4 + Len(JSONstringify(task.input.meta)) + 1,
                       Len(task.wire))

\* C27 witness: a compressed frame with a timestamp and a payload of two
\* different bytes was encoded and decoded
C27_Witness ==
    /\ task.step = "decoded"
    /\ task.input.meta.compressed
    /\ task.input.meta.timestamp = 1
    /\ task.input.meta.frameId = 2
    /\ task.input.payload = <<1, 0>>
    /\ task.parsed.kind = "frame"
    /\ Len(task.wire) = 13

\* C28: a frame leaves the FrameBuffer only by eviction, by pruning or by the
\* clear that disconnect() performs: a call that is not a message event or
\* disconnect() leaves the buffer as it was, and after disconnect() the
\* FrameBuffer is empty.
C28_DisconnectClearsBuffer ==
    [][/\ task'.step = "disconnect" => getBufferSize(frameBuffer') = 0
       /\ task'.step \notin {"disconnect", "message"} =>
            frameBuffer'.buffer = frameBuffer.buffer]_vars

\* C29: dropOldFrames(maxAge) removes frames only from the head, exactly
\* while now - head.timestamp > maxAge, returns the number removed and sets
\* the cursor to max(0, cursor - removed); the frames that remain keep their
\* order.
C29_DropOldFramesFromHead ==
    [][(fbOp'.op = "dropOldFrames" /\ now' = now) =>
        LET buf == frameBuffer.buffer
            removedCount == fbOp'.n
            maxAge == fbOp'.arg
        IN /\ removedCount \in 0..Len(buf)
           /\ frameBuffer'.buffer = SubSeq(buf, removedCount + 1, Len(buf))
           /\ \A i \in 1..removedCount : now - buf[i].timestamp > maxAge
           /\ removedCount < Len(buf) =>
                  ~(now - buf[removedCount + 1].timestamp > maxAge)
           /\ frameBuffer'.currentIndex
                  = Max(0, frameBuffer.currentIndex - removedCount)
           /\ frameBuffer'.maxSize = frameBuffer.maxSize]_vars

\* C29 witness: dropOldFrames(1) removed one frame and kept two, of which the
\* older is exactly 1 ms old, with the cursor moved back to the head
C29_Witness ==
    /\ fbOp.op = "dropOldFrames"
    /\ fbOp.arg = 1
    /\ fbOp.n = 1
    /\ fbOp.at = now
    /\ Len(frameBuffer.buffer) = 2
    /\ now - frameBuffer.buffer[1].timestamp = 1
    /\ frameBuffer.currentIndex = 0

\* C30 as stated: dropOldFrames(maxAge) called twice in succession with the
\* same maxAge and no addFrame (nor any other call) between the calls drops 0
\* frames the second time and leaves buffer and cursor unchanged.
C30_SecondDropIsNoOp ==
    [][(/\ fbOp.op = "dropOldFrames"
        /\ fbOp'.op = "dropOldFrames"
        /\ fbOp'.arg = fbOp.arg
        /\ now' = now) =>
            /\ fbOp'.n = 0
            /\ frameBuffer' = frameBuffer]_vars

\* C30 as amended: the second of two calls of dropOldFrames(maxAge) that read
\* the same Date.now(), with the same maxAge and no other call between them,
\* drops 0 frames and leaves buffer and cursor unchanged.
C30_SecondDropAtSameTimeIsNoOp ==
    [][(/\ fbOp.op = "dropOldFrames"
        /\ fbOp'.op = "dropOldFrames"
        /\ fbOp'.arg = fbOp.arg
        /\ fbOp.at = now
        /\ now' = now) =>
            /\ fbOp'.n = 0
            /\ frameBuffer' = frameBuffer]_vars

\* C30 witness: dropOldFrames(1) was called again at the same time on the two
\* frames its first call had left of three, and dropped nothing
C30_Witness ==
    /\ fbOp.op = "dropOldFrames"
    /\ fbOp.again
    /\ fbOp.arg = 1
    /\ fbOp.n = 0
    /\ Len(frameBuffer.buffer) = 2
    /\ Len(added) = 3
    /\ frameBuffer.maxSize = 3
    /\ now - added[1].timestamp > 1

(***************************************************************************)
(* Further claims about the FrameBuffer (checked under SpecFB).            *)
(***************************************************************************)
\* C31: on a non-empty FrameBuffer, seekToLatest() returns the frame that
\* getLatestFrame() returns, and so does getCurrentFrame() after it.
C31_SeekToLatestIsLatest ==
    (fbOp.op = "seekToLatest" /\ Len(frameBuffer.buffer) > 0) =>
        /\ fbOp.ret = getLatestFrame(frameBuffer)
        /\ getCurrentFrame(frameBuffer) = getLatestFrame(frameBuffer)
        /\ getLatestFrame(frameBuffer) = frameBuffer.buffer[Len(frameBuffer.buffer)]

\* C31 witness: seekToLatest() was called on a buffer of three frames from
\* which older frames had been evicted
C31_Witness ==
    /\ fbOp.op = "seekToLatest"
    /\ Len(frameBuffer.buffer) = 3
    /\ Len(added) = 5
    /\ fbOp.ret = added[5]

\* C32: every addFrame on a buffer of capacity >= 1 leaves the cursor on the
\* newest entry, wherever it was before: getCurrentFrame() returns the frame
\* just added.
C32_AddFrameFollowsTail ==
    [][(/\ fbOp'.op = "addFrame"
        /\ Len(added') = Len(added) + 1
        /\ frameBuffer.maxSize >= 1) =>
            /\ getCurrentFrame(frameBuffer') = added'[Len(added')]
            /\ frameBuffer'.currentIndex = Len(frameBuffer'.buffer) - 1]_vars

\* C32 witness: a frame was added to a full buffer of three and is the one
\* under the cursor
C32_Witness ==
    /\ fbOp.op = "addFrame"
    /\ frameBuffer.maxSize = 3
    /\ Len(added) = 4
    /\ Len(frameBuffer.buffer) = 3
    /\ frameBuffer.currentIndex = 2
    /\ fbOp.ret = added[4]

\* C33: nextFrame() and previousFrame() move the cursor by exactly one when
\* that stays inside [0, length - 1] and leave it where it is otherwise; each
\* returns the frame at the resulting cursor and neither changes the buffer.
C33_CursorMovesByOne ==
    [][(fbOp'.op \in {"nextFrame", "previousFrame"} /\ now' = now) =>
        LET step == IF fbOp'.op = "nextFrame" THEN 1 ELSE -1
            target == frameBuffer.currentIndex + step
            cursor == frameBuffer'.currentIndex
        IN /\ cursor = IF target \in 0..(Len(frameBuffer.buffer) - 1)
                       THEN target
                       ELSE frameBuffer.currentIndex
           /\ fbOp'.ret = IF cursor \in 0..(Len(frameBuffer.buffer) - 1)
                          THEN frameBuffer.buffer[cursor + 1]
                          ELSE NoFrame
           /\ frameBuffer'.buffer = frameBuffer.buffer
           /\ frameBuffer'.maxSize = frameBuffer.maxSize]_vars

\* C33 witness: previousFrame() moved the cursor from the newest of three
\* frames to the middle one
C33_Witness ==
    /\ fbOp.op = "previousFrame"
    /\ Len(frameBuffer.buffer) = 3
    /\ frameBuffer.currentIndex = 1
    /\ fbOp.ret = frameBuffer.buffer[2]

\* C40: dropOldFrames keeps the cursor on the same frame whenever that frame
\* survives: if the cursor was on frame f and f is not dropped,
\* getCurrentFrame() returns f after the call.
C40_CursorFollowsSurvivor ==
    [][(/\ fbOp'.op = "dropOldFrames"
        /\ now' = now
        /\ getCurrentFrame(frameBuffer) # NoFrame
        /\ \E i \in 1..Len(frameBuffer'.buffer) :
                frameBuffer'.buffer[i] = getCurrentFrame(frameBuffer)) =>
            getCurrentFrame(frameBuffer') = getCurrentFrame(frameBuffer)]_vars

\* C40 witness: dropOldFrames dropped one of three frames and the cursor is on
\* the newest, which is in the second place now
C40_Witness ==
    /\ fbOp.op = "dropOldFrames"
    /\ fbOp.n = 1
    /\ Len(frameBuffer.buffer) = 2
    /\ frameBuffer.currentIndex = 1
    /\ Len(added) = 3
    /\ getCurrentFrame(frameBuffer) = added[3]

(***************************************************************************)
(* Further claims about the connection state machine (checked under Spec). *)
(***************************************************************************)
\* C34: at most one reconnect timeout is pending at any time, and the handle
\* reconnectTimer is the handle of the pending one, also when one failure is
\* reported by the error handler, the rejected connect() and the close event.
C34_OneReconnectTimer ==
    /\ Len(timers) <= 1
    /\ Len(timers) = 1 => reconnectTimer = 1

\* C35: one failed connection attempt or one lost connection, through all the
\* callbacks that report it, increments the reconnect-attempt counter by one
\* at most and publishes exactly one failure event.
C35_OneFailureCountedOnce ==
    task.step \in {"error", "catch", "closeAfterError", "close", "timeout"} =>
        /\ Len(task.scheduled) <= 1
        /\ Len(task.emitted) = 1
        /\ task.emitted[1] \in {"error", "disconnected"}

\* C36: events of a socket that was superseded by a newer one or discarded by
\* disconnect() do not change the client's state: between tasks, isConnected
\* is true exactly when the current socket this.ws is open, and at most one
\* socket has handlers that can still run.
C36_OnlyCurrentSocketCounts ==
    Quiescent =>
        /\ isConnected <=> ws.readyState = "OPEN"
        /\ LiveCount(State) <= 1

\* C37: at most one heartbeat interval is running at any time, over every
\* sequence of open, error, close, reconnect and disconnect events.
C37_OneHeartbeat == Cardinality(heartbeats) <= 1

(***************************************************************************)
(* The EventEmitter on its own: the embedding code registers, removes and  *)
(* emits; the handlers are functions that return, throw, or emit the event *)
(* they are called for.                                                    *)
(***************************************************************************)
\* emitter.on(event, fn)
On ==
    \E event \in EventNames, fn \in Behaviours :
        /\ SetSize(emitter.events[event]) < MaxListeners
        /\ emitter' = Returned(EventEmitter_on(Forget(emitter), event,
                                               [fn |-> fn, closure |-> 0]))
        /\ UNCHANGED <<fbVars, clientVars, streamVars>>

\* emitter.off(event, fn): the caller holds fn, never the onceHandler of once()
Off ==
    \E event \in EventNames, fn \in Behaviours :
        /\ emitter' = Returned(EventEmitter_off(Forget(emitter), event,
                                                [fn |-> fn, closure |-> 0]))
        /\ UNCHANGED <<fbVars, clientVars, streamVars>>

\* emitter.once(event, fn)
Once ==
    \E event \in EventNames, fn \in Behaviours :
        /\ emitter.closures < MaxOnce
        /\ SetSize(emitter.events[event]) < MaxListeners
        /\ emitter' = Returned(EventEmitter_once(Forget(emitter), event, fn))
        /\ UNCHANGED <<fbVars, clientVars, streamVars>>

\* emitter.emit(event, data) from outside any handler
Emit ==
    \E event \in EventNames :
        /\ emitter.emits < MaxEmits
        /\ emitter' = Returned(EventEmitter_emit(
                           [emitter EXCEPT !.emits = @ + 1,
                                           !.event = event,
                                           !.before = emitter.events[event],
                                           !.log = <<>>],
                           event, 0))
        /\ UNCHANGED <<fbVars, clientVars, streamVars>>

NextEmitter ==
    \/ On
    \/ Off
    \/ Once
    \/ Emit

SpecEmitter == Init /\ [][NextEmitter]_vars

(***************************************************************************)
(* Claims about the EventEmitter (checked under SpecEmitter).              *)
(***************************************************************************)
\* the handlers the last emit() called itself, in the order of the calls
OwnCalls ==
    LET own == SelectSeq(emitter.log, LAMBDA c : c.depth = 0)
    IN  [i \in 1..Len(own) |-> own[i].handler]

\* no handler of the last emit() emitted
NoNestedEmit == \A i \in 1..Len(emitter.log) : emitter.log[i].depth = 0

\* C38: a handler registered with once(event, h) is invoked at most once
\* over any sequence of emits of the event, also when h throws and when h
\* emits the same event again.
C38_OnceHandlerInvokedAtMostOnce ==
    \A k \in 1..Len(emitter.calls) : emitter.calls[k] <= 1

\* C39: emit(event, data) never throws to its caller, calls no handler of
\* another event, and calls every handler that was registered for the event
\* exactly once itself, whether or not handlers before it threw; a handler
\* it does not call itself is a once() handler that an emit from inside a
\* handler has called and removed before.
C39_EmitCallsEveryHandlerOnce ==
    emitter.event # "none" =>
        /\ ~emitter.exc
        /\ \A i \in 1..Len(emitter.log) : emitter.log[i].event = emitter.event
        /\ \A i, j \in 1..Len(OwnCalls) : OwnCalls[i] = OwnCalls[j] => i = j
        /\ \A i \in 1..Len(OwnCalls) : SetHas(emitter.before, OwnCalls[i])
        /\ NoNestedEmit => OwnCalls = emitter.before
        /\ \A i \in 1..Len(emitter.before) :
               \/ SetHas(OwnCalls, emitter.before[i])
               \/ /\ emitter.before[i].closure > 0
                  /\ \E j \in 1..Len(emitter.log) :
                         /\ emitter.log[j].handler = emitter.before[i]
                         /\ emitter.log[j].depth > 0

\* an emit whose first handler threw and whose second handler was called all
\* the same, while the other event had a handler that was not called
C39_Witness ==
    /\ emitter.event # "none"
    /\ Len(emitter.before) = 2
    /\ emitter.before[1] = [fn |-> "throws", closure |-> 0]
    /\ Len(emitter.log) = 2
    /\ emitter.log[2].handler = emitter.before[2]
    /\ emitter.log[2].depth = 0
    /\ \E e \in EventNames : e # emitter.event /\ SetSize(emitter.events[e]) > 0

====
